---- MODULE Spec2Model ----
(***************************************************************************)
(* One tunnel session of the outbound TCP manager (handleTCPOutBound) and  *)
(* the outbound -> inbound copy (remoteSocketToWS).                        *)
(*                                                                         *)
(* The repository holds two versions of handleTCPOutBound: the one with    *)
(* SOCKS5 and HTTP proxies (variant "proxy") and the older SOCKS5-only one *)
(* (variant "socks5only").  Both are modelled; they differ in the routing  *)
(* decision of connectAndWrite and in the branch condition of retry.       *)
(*                                                                         *)
(* Program steps are cut at the points where the code really suspends on   *)
(* I/O (proxy handshake, first write, readable.pipeTo).  Continuations     *)
(* that run in the same microtask chain are part of the step that resumes  *)
(* them.  The runtime's sockets and the inbound WebSocket are the          *)
(* environment: chunks, EOF, errors and the peer closing are its events.   *)
(***************************************************************************)
EXTENDS Integers, Sequences, FiniteSets, TLC

\* ------------------------------------------------------------- bounds
\* chunks one outbound socket can produce before it ends
MaxChunks == 2
\* connectAndWrite calls the model follows in one session
MaxAttempts == 3
\* message events the inbound WebSocket delivers in one session
MaxMessages == 2
\* cancel() calls made on the inbound stream in one session
MaxCancels == 2
\* chunks the inbound transport's send buffer holds before it is saturated
SendBufferHighWater == 1

\* ---------------------------------------------------------- constants
WS_READY_STATE_OPEN == 1
WS_READY_STATE_CLOSING == 2
\* the WebSocket API's CLOSED state, the one after CLOSING
WS_READY_STATE_CLOSED == WS_READY_STATE_CLOSING + 1

\* ------------------------------------------------------------- inputs
\* "" and 0 stand for the falsy values of a host and of a port
\* (null, undefined, '' and 0 all take the right operand of ||).
RemoteHosts == {"origin.example"}
RemotePorts == {80}
FallbackHosts == {"", "fallback.example"}
FallbackPorts == {0, 443}
\* (proxyType, parsedProxyAddress) pairs of the request configuration
ProxyDescriptors ==
    { <<"null", FALSE>>, <<"socks5", TRUE>>, <<"http", TRUE>>, <<"socks5", FALSE>> }

Variants == {"proxy", "socks5only"}

\* The request configuration handed to handleTCPOutBound.  The proxy
\* version reads proxyType/parsedProxyAddress, the SOCKS5-only version
\* reads enableSocks; the fields the variant does not read are left at the
\* defaults of createRequestConfig.
Configs ==
    { [variant |-> "proxy", socks5Relay |-> r, proxyType |-> d[1],
       parsedProxyAddress |-> d[2], enableSocks |-> FALSE,
       proxyIP |-> ip, proxyPort |-> pp,
       addressRemote |-> a, portRemote |-> p] :
         r \in BOOLEAN, d \in ProxyDescriptors, ip \in FallbackHosts,
         pp \in FallbackPorts, a \in RemoteHosts, p \in RemotePorts }
    \cup
    { [variant |-> "socks5only", socks5Relay |-> r, proxyType |-> "null",
       parsedProxyAddress |-> FALSE, enableSocks |-> e,
       proxyIP |-> ip, proxyPort |-> pp,
       addressRemote |-> a, portRemote |-> p] :
         r \in BOOLEAN, e \in BOOLEAN, ip \in FallbackHosts,
         pp \in FallbackPorts, a \in RemoteHosts, p \in RemotePorts }

VARIABLES
    config,        \* the request configuration (read-only)
    hpc,           \* position of handleTCPOutBound
    caw,           \* the connectAndWrite call in progress
    attempts,      \* connectAndWrite calls made so far
    remoteSocket,  \* remoteSocket.value: index of the recorded socket, 0 = null
    sockets,       \* the outbound sockets opened, by attempt number
    copies,        \* the remoteSocketToWS call on each socket
    readyState,    \* webSocket.readyState
    wsSent,        \* the webSocket.send calls made, in order
    wsTransmitted, \* how many of the chunks sent the transport has put on the wire
    earlyDataHeader,      \* makeReadableWebSocketStream's earlyDataHeader argument
    stream,               \* the ReadableStream: state, queue, closeRequested
    readableStreamCancel, \* the closure's flag
    produced,             \* the chunks the stream's reader has been given, in order
    faults,               \* exceptions thrown out of a listener or callback
    wsEvents,             \* the events webSocketServer has fired
    cancelLog,            \* history of the cancel() calls (read by no action)
    urlPROXYIP,    \* handleRequest: the proxyip parameter of the URL ("" = none)
    envPROXYIP,    \* handleRequest: the PROXYIP setting of the environment
    proxyPhase,    \* position of the request in handleRequest and the attempts
    requestProxy,  \* requestConfig.proxyIP and requestConfig.proxyPort
    retryRead      \* what retry read from config.proxyIP and config.proxyPort

inVars == <<earlyDataHeader, stream, readableStreamCancel, produced, faults,
            wsEvents, cancelLog>>

pcVars == <<urlPROXYIP, envPROXYIP, proxyPhase, requestProxy, retryRead>>

vars == <<config, hpc, caw, attempts, remoteSocket, sockets, copies, readyState, wsSent,
          wsTransmitted, inVars, pcVars>>

SocketIds == 1..MaxAttempts

NoSocket ==
    [made |-> FALSE, via |-> "none", hostname |-> "", port |-> 0,
     readable |-> "none", writable |-> "none", nread |-> 0,
     payloadWrites |-> 0, closedWatch |-> "none", inboundAtOpen |-> 0]

NoCopy ==
    [pipe |-> "none", after |-> "none", hasIncomingData |-> FALSE,
     protocolResponseHeader |-> FALSE, retry |-> FALSE, errChunk |-> 0]

IdleCall ==
    [stage |-> "idle", caller |-> "none", from |-> 0, sock |-> 0,
     address |-> "", port |-> 0, useProxy |-> FALSE, via |-> "none"]

\* a || b on hosts and on ports
JsOrHost(a, b) == IF a = "" THEN b ELSE a
JsOrPort(a, b) == IF a = 0 THEN b ELSE a

\* ----------------------------------------------------- connectAndWrite
\* config.proxyType && config.parsedProxyAddress
ProxyConfigured(c) == c.proxyType # "null" /\ c.parsedProxyAddress

\* How connectAndWrite opens the socket: "direct", "socks5" or "http".
RouteProxy(c, useProxy) ==
    LET shouldUseProxy == c.socks5Relay \/ useProxy
    IN  IF shouldUseProxy /\ ProxyConfigured(c)
        THEN (IF c.proxyType = "http" THEN "http" ELSE "socks5")
        ELSE "direct"

RouteSocks5Only(c, socks) ==
    IF c.socks5Relay THEN "socks5"
    ELSE IF socks THEN "socks5" ELSE "direct"

Route(c, useProxy) ==
    IF c.variant = "proxy" THEN RouteProxy(c, useProxy) ELSE RouteSocks5Only(c, useProxy)

\* Whether connectAndWrite itself writes rawClientData on a socket opened
\* this way: the HTTP branch returns before the write, httpConnect having
\* written it.
WritesPayloadAlways(via) == TRUE
WritesPayloadItself(via) == via # "http"

\* A socket the runtime has just opened; inboundAtOpen records the inbound
\* connection's readyState at that moment (history, read by no action).
OpenSocket(via, address, port, rs) ==
    [made |-> TRUE, via |-> via, hostname |-> address, port |-> port,
     readable |-> "open", writable |-> "open", nread |-> 0,
     payloadWrites |-> (IF via = "http" THEN 1 ELSE 0),
     closedWatch |-> "none", inboundAtOpen |-> rs]

\* Either half of the socket is still open.
Live(s) == s.made /\ (s.readable = "open" \/ s.writable = "open")

\* socket.closed has settled: the socket is closed in both directions.
ClosedSettled(s) == s.made /\ ~Live(s)

\* ------------------------------------------------------ safeCloseWebSocket
\* close() on an OPEN or CLOSING socket starts (or keeps) the closing
\* handshake; on any other state nothing is called.
safeCloseWebSocket(rs) ==
    IF rs = WS_READY_STATE_OPEN \/ rs = WS_READY_STATE_CLOSING
    THEN WS_READY_STATE_CLOSING
    ELSE rs

\* ------------------------------------------------------- remoteSocketToWS
\* the guard of write(chunk)
WsWritableAnyState(rs) == TRUE
WsWritable(rs) == rs = WS_READY_STATE_OPEN

\* protocolResponseHeader after a send that found it pending
HeaderKept(h) == h
HeaderAfterSend(h) == FALSE

\* The chunk of the socket that a send carries: chunk n itself, or the
\* header followed by chunk n (combined.buffer); 0 would be no chunk.
SentChunkHeaderAlone(n, header) == IF header THEN 0 ELSE n
SentChunk(n, header) == n

\* the await on pipeTo: the code after it runs once the pipe has settled
PipeSettledNoAwait(c) == c.pipe # "none"
PipeSettled(c) == c.pipe \in {"closed", "errored"}

\* if (!hasIncomingData && retry)
ShouldRetryIgnoringData(hasIncomingData, retry) == retry
ShouldRetry(hasIncomingData, retry) == ~hasIncomingData /\ retry

\* the retry argument handleTCPOutBound and retry pass to remoteSocketToWS
RetryArgAlways(caller) == TRUE
RetryArg(caller) == caller = "first"

\* The copy loop as remoteSocketToWS starts it on socket s.
StartCopy(s, retryFn) ==
    [pipe |-> (IF s.readable = "open" THEN "piping"
               ELSE IF s.readable = "eof" THEN "closed" ELSE "errored"),
     after |-> "pending", hasIncomingData |-> FALSE,
     protocolResponseHeader |-> TRUE, retry |-> retryFn, errChunk |-> 0]

\* ------------------------------------------------------------------ retry
\* the arguments retry gives connectAndWrite: <<address, port, useProxy>>
RetryViaProxy(c) ==
    IF c.variant = "proxy" THEN ProxyConfigured(c) ELSE c.enableSocks

RetryTargetAllOrNothing(c) ==
    IF RetryViaProxy(c) THEN <<c.addressRemote, c.portRemote, TRUE>>
    ELSE IF c.proxyIP # "" /\ c.proxyPort # 0
         THEN <<c.proxyIP, c.proxyPort, FALSE>>
         ELSE <<c.addressRemote, c.portRemote, FALSE>>

RetryTarget(c) ==
    IF RetryViaProxy(c) THEN <<c.addressRemote, c.portRemote, TRUE>>
    ELSE <<JsOrHost(c.proxyIP, c.addressRemote),
           JsOrPort(c.proxyPort, c.portRemote), FALSE>>

\* tcpSocket.closed.catch(..).finally(() => safeCloseWebSocket(webSocket))
RetryForgetsClosed(s) == s
RetryWatchesClosed(s) == [s EXCEPT !.closedWatch = "registered"]

\* What a throw of connectAndWrite leads to: neither caller catches it, so
\* the call's promise is rejected and nothing more runs ("reject"); "retry"
\* would be a caller that answers the throw with a call of retry().
\* The inbound stream before makeReadableWebSocketStream has built it.
NoStream == [state |-> "none", queue |-> <<>>, closeRequested |-> FALSE]
NoEvents == [messages |-> 0, close |-> FALSE, error |-> FALSE]
NoCancel == [calls |-> 0, ran |-> FALSE, produced |-> 0, faults |-> 0,
             messages |-> 0, buffered |-> 0]

\* Strings are sequences of one-character strings; <<>> is '' and stands
\* for null and undefined too (all falsy).
NoProxyConfig == [ip |-> <<>>, port |-> <<>>]

\* handleRequest has not run.
ProxyConfigIdle ==
    /\ urlPROXYIP = <<>>
    /\ envPROXYIP = <<>>
    /\ proxyPhase = "request"
    /\ requestProxy = NoProxyConfig
    /\ retryRead = NoProxyConfig

OnConnectThrowRetriesFirst(caller) == IF caller = "first" THEN "retry" ELSE "reject"
OnConnectThrow(caller) == "reject"

TypeOK ==
    /\ config \in Configs
    /\ hpc \in {"init", "awaitConnect", "returned", "threw"}
    /\ caw.stage \in {"idle", "connecting", "writing"}
    /\ attempts \in 0..MaxAttempts
    /\ remoteSocket \in 0..MaxAttempts
    /\ DOMAIN sockets = SocketIds
    /\ DOMAIN copies = SocketIds
    /\ readyState \in {WS_READY_STATE_OPEN, WS_READY_STATE_CLOSING, WS_READY_STATE_CLOSED}
    /\ Len(wsSent) <= MaxChunks * MaxAttempts
    /\ wsTransmitted \in 0..Len(wsSent)

Init ==
    /\ config \in Configs
    /\ hpc = "init"
    /\ caw = IdleCall
    /\ attempts = 0
    /\ remoteSocket = 0
    /\ sockets = [i \in SocketIds |-> NoSocket]
    /\ copies = [i \in SocketIds |-> NoCopy]
    /\ readyState = WS_READY_STATE_OPEN
    /\ wsSent = <<>>
    /\ wsTransmitted = 0
    /\ earlyDataHeader = ""
    /\ stream = NoStream
    /\ readableStreamCancel = FALSE
    /\ produced = <<>>
    /\ faults = 0
    /\ wsEvents = NoEvents
    /\ cancelLog = NoCancel
    /\ ProxyConfigIdle


\* ------------------------------------------------------------- steps
\* connectAndWrite(address, port, useProxy) up to its first suspension.
\* connect() is synchronous, so on the direct path the socket exists and is
\* recorded in remoteSocket.value before the call suspends on the first
\* write; on a proxy path the call suspends on the proxy handshake.
CallConnectAndWrite(caller, from, target, socks) ==
    LET n == attempts + 1
        via == Route(config, target[3])
        call == [stage |-> "connecting", caller |-> caller, from |-> from,
                 sock |-> n, address |-> target[1], port |-> target[2],
                 useProxy |-> target[3], via |-> via]
    IN  /\ attempts' = n
        /\ IF via = "direct"
           THEN /\ sockets' = [socks EXCEPT ![n] = OpenSocket(via, target[1], target[2], readyState)]
                /\ remoteSocket' = n
                /\ caw' = [call EXCEPT !.stage = "writing"]
           ELSE /\ sockets' = socks
                /\ remoteSocket' = remoteSocket
                /\ caw' = call

\* The caller's continuation once connectAndWrite has returned socket n.
\* handleTCPOutBound starts the copy with retry; retry registers the closed
\* handler and starts the copy with null, and remoteSocketToWS's
\* `await retry()` completes.
Returned(n, socks) ==
    /\ caw' = IdleCall
    /\ IF caw.caller = "first"
       THEN /\ hpc' = "returned"
            /\ sockets' = socks
            /\ copies' = [copies EXCEPT ![n] = StartCopy(socks[n], RetryArg("first"))]
       ELSE /\ hpc' = hpc
            /\ sockets' = [socks EXCEPT ![n] = RetryWatchesClosed(@)]
            /\ copies' = [i \in SocketIds |->
                            IF i = n THEN StartCopy(socks[n], RetryArg("retry"))
                            ELSE IF i = caw.from THEN [copies[i] EXCEPT !.after = "done"]
                            ELSE copies[i]]

\* The caller's continuation once connectAndWrite has thrown: the rejection
\* propagates out of handleTCPOutBound (first attempt) or out of retry and
\* remoteSocketToWS (retry attempt); nothing catches it.
Threw(socks) ==
    IF OnConnectThrow(caw.caller) = "retry"
    THEN /\ CallConnectAndWrite("retry", 0, RetryTarget(config), socks)
         /\ hpc' = (IF caw.caller = "first" THEN "threw" ELSE hpc)
         /\ copies' = copies
    ELSE /\ caw' = IdleCall
         /\ sockets' = socks
         /\ UNCHANGED <<attempts, remoteSocket>>
         /\ IF caw.caller = "first"
            THEN hpc' = "threw" /\ copies' = copies
            ELSE /\ hpc' = hpc
                 /\ copies' = [i \in SocketIds |->
                                 IF i = caw.from THEN [copies[i] EXCEPT !.after = "rejected"]
                                 ELSE copies[i]]

\* let tcpSocket = await connectAndWrite(addressRemote, portRemote)
HandleTCPOutBound ==
    /\ hpc = "init"
    /\ hpc' = "awaitConnect"
    /\ CallConnectAndWrite("first", 0, <<config.addressRemote, config.portRemote, FALSE>>, sockets)
    /\ UNCHANGED <<pcVars, inVars, wsTransmitted, config, copies, readyState, wsSent>>

\* socks5Connect / httpConnect returns a socket.  httpConnect has written
\* rawClientData itself, and connectAndWrite returns without writing.
ProxyConnectOK ==
    /\ caw.stage = "connecting"
    /\ LET n == caw.sock
           socks == [sockets EXCEPT ![n] = OpenSocket(caw.via, caw.address, caw.port, readyState)]
       IN  /\ remoteSocket' = n
           /\ IF ~WritesPayloadItself(caw.via)
              THEN Returned(n, socks)
              ELSE /\ caw' = [caw EXCEPT !.stage = "writing"]
                   /\ sockets' = socks
                   /\ UNCHANGED <<hpc, copies>>
    /\ UNCHANGED <<pcVars, inVars, wsTransmitted, config, attempts, readyState, wsSent>>

\* socks5Connect throws, httpConnect throws or returns no socket.
ProxyConnectFail ==
    /\ caw.stage = "connecting"
    /\ Threw(sockets)
    /\ UNCHANGED <<pcVars, inVars, wsTransmitted, config, readyState, wsSent>>

\* await writer.write(rawClientData) succeeds.
WritePayloadOK ==
    /\ caw.stage = "writing"
    /\ sockets[caw.sock].writable = "open"
    /\ Returned(caw.sock, [sockets EXCEPT ![caw.sock].payloadWrites = @ + 1])
    /\ UNCHANGED <<pcVars, inVars, wsTransmitted, config, attempts, remoteSocket, readyState, wsSent>>

\* await writer.write(rawClientData) rejects: the connection has failed.
WritePayloadFail ==
    /\ caw.stage = "writing"
    /\ Threw([sockets EXCEPT ![caw.sock].readable = (IF @ = "open" THEN "err" ELSE @),
                             ![caw.sock].writable = "closed"])
    /\ UNCHANGED <<pcVars, inVars, wsTransmitted, config, readyState, wsSent>>

\* write(chunk) of the WritableStream, on a chunk pipeTo read from socket i.
RemoteSocketToWSWrite(i) ==
    /\ sockets[i].readable = "open"
    /\ copies[i].pipe = "piping"
    /\ sockets[i].nread < MaxChunks
    /\ WsWritable(readyState)
    /\ sockets' = [sockets EXCEPT ![i].nread = @ + 1]
    /\ wsSent' = Append(wsSent,
                    [sock |-> i,
                     n |-> SentChunk(sockets[i].nread + 1, copies[i].protocolResponseHeader),
                     header |-> copies[i].protocolResponseHeader,
                     readyState |-> readyState, current |-> remoteSocket])
    /\ copies' = [copies EXCEPT
                    ![i].hasIncomingData = TRUE,
                    ![i].protocolResponseHeader = (IF @ THEN HeaderAfterSend(@) ELSE @)]
    /\ UNCHANGED <<pcVars, inVars, wsTransmitted, config, hpc, caw, attempts, remoteSocket, readyState>>

\* write(chunk) throws 'WebSocket is not open': pipeTo cancels the readable
\* and rejects.  Nothing in the code closes the writable half.
RemoteSocketToWSWriteThrows(i) ==
    /\ sockets[i].readable = "open"
    /\ copies[i].pipe = "piping"
    /\ sockets[i].nread < MaxChunks
    /\ ~WsWritable(readyState)
    /\ sockets' = [sockets EXCEPT ![i].nread = @ + 1, ![i].readable = "cancelled"]
    /\ copies' = [copies EXCEPT ![i].pipe = "errored", ![i].errChunk = sockets[i].nread + 1]
    /\ UNCHANGED <<pcVars, inVars, wsTransmitted, config, hpc, caw, attempts, remoteSocket, readyState, wsSent>>

\* The peer ends the stream.  The sockets are opened without allowHalfOpen,
\* so the runtime closes the writable half with it.
SocketEOF(i) ==
    /\ sockets[i].readable = "open"
    /\ sockets' = [sockets EXCEPT ![i].readable = "eof", ![i].writable = "closed"]
    /\ copies' = [copies EXCEPT ![i].pipe = (IF @ = "piping" THEN "closed" ELSE @)]
    /\ UNCHANGED <<pcVars, inVars, wsTransmitted, config, hpc, caw, attempts, remoteSocket, readyState, wsSent>>

\* The connection fails (refused, reset, timed out).
SocketError(i) ==
    /\ Live(sockets[i])
    /\ sockets' = [sockets EXCEPT ![i].readable = (IF @ = "open" THEN "err" ELSE @),
                                  ![i].writable = "closed"]
    /\ copies' = [copies EXCEPT ![i].pipe = (IF @ = "piping" THEN "errored" ELSE @)]
    /\ UNCHANGED <<pcVars, inVars, wsTransmitted, config, hpc, caw, attempts, remoteSocket, readyState, wsSent>>

\* remoteSocketToWS after the await on pipeTo: the catch block, then the
\* retry decision.  retry() runs up to connectAndWrite's first suspension.
RemoteSocketToWSEnd(i) ==
    /\ copies[i].after = "pending"
    /\ PipeSettled(copies[i])
    /\ readyState' = (IF copies[i].pipe = "errored"
                      THEN safeCloseWebSocket(readyState) ELSE readyState)
    /\ IF ShouldRetry(copies[i].hasIncomingData, copies[i].retry)
       THEN /\ attempts < MaxAttempts
            /\ caw.stage = "idle"
            /\ copies' = [copies EXCEPT ![i].after = "retrying"]
            /\ CallConnectAndWrite("retry", i, RetryTarget(config), sockets)
       ELSE /\ copies' = [copies EXCEPT ![i].after = "done"]
            /\ UNCHANGED <<caw, attempts, sockets, remoteSocket>>
    /\ UNCHANGED <<pcVars, inVars, wsTransmitted, config, hpc, wsSent>>

\* the finally callback retry put on tcpSocket.closed
ClosedFinally(i) ==
    /\ sockets[i].closedWatch = "registered"
    /\ ClosedSettled(sockets[i])
    /\ sockets' = [sockets EXCEPT ![i].closedWatch = "fired"]
    /\ readyState' = safeCloseWebSocket(readyState)
    /\ UNCHANGED <<pcVars, inVars, wsTransmitted, config, hpc, caw, attempts, remoteSocket, copies, wsSent>>

\* The client closes or drops the inbound connection, or completes the
\* closing handshake.
WsPeerClose ==
    /\ \E s \in {WS_READY_STATE_CLOSING, WS_READY_STATE_CLOSED} :
          s > readyState /\ readyState' = s
    /\ UNCHANGED <<pcVars, inVars, wsTransmitted, config, hpc, caw, attempts, remoteSocket, sockets, copies, wsSent>>

\* The inbound transport puts the oldest chunk of its send buffer on the
\* wire; webSocket.send only appended it to that buffer.
WsDrain ==
    /\ wsTransmitted < Len(wsSent)
    /\ wsTransmitted' = wsTransmitted + 1
    /\ UNCHANGED <<pcVars, inVars, config, hpc, caw, attempts, remoteSocket, sockets, copies,
                   readyState, wsSent>>

Next ==
    \/ HandleTCPOutBound
    \/ ProxyConnectOK
    \/ ProxyConnectFail
    \/ WritePayloadOK
    \/ WritePayloadFail
    \/ \E i \in SocketIds : RemoteSocketToWSWrite(i)
    \/ \E i \in SocketIds : RemoteSocketToWSWriteThrows(i)
    \/ \E i \in SocketIds : SocketEOF(i)
    \/ \E i \in SocketIds : SocketError(i)
    \/ \E i \in SocketIds : RemoteSocketToWSEnd(i)
    \/ \E i \in SocketIds : ClosedFinally(i)
    \/ WsPeerClose
    \/ WsDrain

Spec == Init /\ [][Next]_vars

\* The continuations the event loop runs once they are ready: they wait on
\* nothing outside the program.
FairSpec ==
    /\ Spec
    /\ WF_vars(HandleTCPOutBound)
    /\ \A i \in SocketIds : WF_vars(RemoteSocketToWSEnd(i))
    /\ \A i \in SocketIds : WF_vars(ClosedFinally(i))

\* No step of the program is ready and no connect or first write is
\* outstanding: the session only waits for its peers (a chunk, an EOF, an
\* error, the closing of a socket).
Quiescent ==
    /\ hpc \in {"returned", "threw"}
    /\ caw.stage = "idle"
    /\ \A i \in SocketIds :
          /\ ~(copies[i].after = "pending" /\ PipeSettled(copies[i]))
          /\ ~(sockets[i].closedWatch = "registered" /\ ClosedSettled(sockets[i]))

\* No continuation of the session is left, running or waiting.
SessionOver ==
    /\ hpc \in {"returned", "threw"}
    /\ caw.stage = "idle"
    /\ \A i \in SocketIds :
          /\ copies[i].after \in {"none", "done", "rejected"}
          /\ sockets[i].closedWatch # "registered"


\* ================================================= the inbound stream
\* makeReadableWebSocketStream(webSocketServer, earlyDataHeader, log): the
\* ReadableStream built over the inbound WebSocket, its three listeners and
\* its cancel callback, with the events of the WebSocket and the reads and
\* cancels of the stream's consumer as the environment.

\* "" is the absent header; "aGVsbG8" is base64url for "hello"; "a*b" is
\* not base64.
EarlyDataHeaders == {"", "aGVsbG8", "a*b"}
\* event.data of a message event
Payloads == {"ping", "pong"}

\* base64ToArrayBuffer(base64Str): the decoded bytes, or the decoding error;
\* earlyData = "" stands for no bytes (null), the falsy result.
base64ToArrayBuffer(base64Str) ==
    IF base64Str = "" THEN [earlyData |-> "", error |-> FALSE]
    ELSE IF base64Str = "aGVsbG8" THEN [earlyData |-> "hello", error |-> FALSE]
    ELSE [earlyData |-> "", error |-> TRUE]

\* The stream controller's methods, as the Streams API defines them.
\* enqueue and close throw a TypeError unless CanCloseOrEnqueue.
CanCloseOrEnqueue(st) == st.state = "readable" /\ ~st.closeRequested

ControllerEnqueue(st, chunk) == [st EXCEPT !.queue = Append(@, chunk)]

ControllerClose(st) ==
    IF st.queue = <<>>
    THEN [st EXCEPT !.state = "closed"]
    ELSE [st EXCEPT !.closeRequested = TRUE]

\* controller.error does nothing on a stream that is not readable.
ControllerError(st) ==
    IF st.state = "readable"
    THEN [st EXCEPT !.state = "errored", !.queue = <<>>]
    ELSE st

\* What start() enqueues after registering the listeners.
NoEarlyChunks(decoded) == <<>>
EarlyChunks(decoded) ==
    IF decoded.error THEN <<>>
    ELSE IF decoded.earlyData # "" THEN <<decoded.earlyData>>
    ELSE <<>>

\* The stream start() leaves behind.
start(header) ==
    LET decoded == base64ToArrayBuffer(header)
    IN  [state |-> IF decoded.error THEN "errored" ELSE "readable",
         queue |-> EarlyChunks(decoded),
         closeRequested |-> FALSE]

\* The part of the session the cancel callback reads and writes.
Session ==
    [readableStreamCancel |-> readableStreamCancel,
     readyState |-> readyState,
     faults |-> faults]

\* The cancel callback of the stream.
cancelKeepsFlag(s) == [s EXCEPT !.readyState = safeCloseWebSocket(@)]
cancelUnguardedClose(s) ==
    [readableStreamCancel |-> TRUE,
     readyState |-> IF s.readyState = WS_READY_STATE_OPEN
                    THEN WS_READY_STATE_CLOSING ELSE s.readyState,
     faults |-> IF s.readyState = WS_READY_STATE_OPEN THEN s.faults ELSE s.faults + 1]
cancel(s) ==
    [s EXCEPT !.readableStreamCancel = TRUE,
              !.readyState = safeCloseWebSocket(@)]

InboundTypeOK ==
    /\ earlyDataHeader \in EarlyDataHeaders
    /\ stream.state \in {"none", "readable", "closed", "errored"}
    /\ stream.closeRequested \in BOOLEAN
    /\ Len(stream.queue) <= MaxMessages + 1
    /\ readableStreamCancel \in BOOLEAN
    /\ Len(produced) <= MaxMessages + 1
    /\ faults \in 0..(MaxMessages + 1)
    /\ wsEvents.messages \in 0..MaxMessages
    /\ cancelLog.calls \in 0..MaxCancels
    /\ readyState \in {WS_READY_STATE_OPEN, WS_READY_STATE_CLOSING, WS_READY_STATE_CLOSED}

\* The outbound side is left as it starts.
OutboundIdle ==
    /\ config = CHOOSE c \in Configs : TRUE
    /\ hpc = "init"
    /\ caw = IdleCall
    /\ attempts = 0
    /\ remoteSocket = 0
    /\ sockets = [i \in SocketIds |-> NoSocket]
    /\ copies = [i \in SocketIds |-> NoCopy]
    /\ wsSent = <<>>
    /\ wsTransmitted = 0

outVars == <<config, hpc, caw, attempts, remoteSocket, sockets, copies, wsSent,
             wsTransmitted>>

InboundInit ==
    /\ OutboundIdle
    /\ readyState = WS_READY_STATE_OPEN
    /\ earlyDataHeader \in EarlyDataHeaders
    /\ stream = NoStream
    /\ readableStreamCancel = FALSE
    /\ produced = <<>>
    /\ faults = 0
    /\ wsEvents = NoEvents
    /\ cancelLog = NoCancel
    /\ ProxyConfigIdle

\* new ReadableStream({start, pull, cancel}): start runs in the constructor.
MakeReadableWebSocketStream ==
    /\ stream.state = "none"
    /\ stream' = start(earlyDataHeader)
    /\ UNCHANGED <<pcVars, outVars, readyState, earlyDataHeader, readableStreamCancel,
                   produced, faults, wsEvents, cancelLog>>

\* A message event: the listener returns if the flag is set, else enqueues;
\* enqueue throws out of the listener when the stream cannot take a chunk.
\* The WebSocket fires no message after its close or error event.
OnMessage ==
    /\ stream.state # "none"
    /\ ~wsEvents.close /\ ~wsEvents.error
    /\ wsEvents.messages < MaxMessages
    /\ wsEvents' = [wsEvents EXCEPT !.messages = @ + 1]
    /\ \E data \in Payloads :
          IF readableStreamCancel
          THEN UNCHANGED <<stream, faults>>
          ELSE IF CanCloseOrEnqueue(stream)
          THEN stream' = ControllerEnqueue(stream, data) /\ UNCHANGED faults
          ELSE faults' = faults + 1 /\ UNCHANGED stream
    /\ UNCHANGED <<pcVars, outVars, readyState, earlyDataHeader, readableStreamCancel,
                   produced, cancelLog>>

\* The close event: the WebSocket is CLOSING (the peer's close frame has
\* arrived) or CLOSED by then.  The listener returns if the flag is set,
\* else calls safeCloseWebSocket and controller.close().
OnClose ==
    /\ stream.state # "none"
    /\ ~wsEvents.close
    /\ wsEvents' = [wsEvents EXCEPT !.close = TRUE]
    /\ \E rs \in {WS_READY_STATE_CLOSING, WS_READY_STATE_CLOSED} :
          /\ rs >= readyState
          /\ IF readableStreamCancel
             THEN readyState' = rs /\ UNCHANGED <<stream, faults>>
             ELSE /\ readyState' = safeCloseWebSocket(rs)
                  /\ IF CanCloseOrEnqueue(stream)
                     THEN stream' = ControllerClose(stream) /\ UNCHANGED faults
                     ELSE faults' = faults + 1 /\ UNCHANGED stream
    /\ UNCHANGED <<pcVars, outVars, earlyDataHeader, readableStreamCancel, produced, cancelLog>>

\* The error event: the listener logs and calls controller.error(err).
OnError ==
    /\ stream.state # "none"
    /\ ~wsEvents.close /\ ~wsEvents.error
    /\ wsEvents' = [wsEvents EXCEPT !.error = TRUE]
    /\ stream' = ControllerError(stream)
    /\ UNCHANGED <<pcVars, outVars, readyState, earlyDataHeader, readableStreamCancel,
                   produced, faults, cancelLog>>

\* The consumer reads the next chunk; a close requested while chunks were
\* queued takes effect when the last of them is read.
StreamRead ==
    /\ stream.state = "readable"
    /\ stream.queue # <<>>
    /\ produced' = Append(produced, Head(stream.queue))
    /\ stream' = IF Len(stream.queue) = 1 /\ stream.closeRequested
                 THEN [stream EXCEPT !.queue = <<>>, !.state = "closed"]
                 ELSE [stream EXCEPT !.queue = Tail(@)]
    /\ UNCHANGED <<pcVars, outVars, readyState, earlyDataHeader, readableStreamCancel,
                   faults, wsEvents, cancelLog>>

\* The consumer cancels the stream.  The Streams API closes a readable
\* stream, drops its queue and runs the cancel callback; on a stream already
\* closed or errored it runs nothing.
StreamCancel ==
    /\ stream.state # "none"
    /\ cancelLog.calls < MaxCancels
    /\ IF stream.state = "readable"
       THEN /\ stream' = [stream EXCEPT !.state = "closed", !.queue = <<>>]
            /\ readableStreamCancel' = cancel(Session).readableStreamCancel
            /\ readyState' = cancel(Session).readyState
            /\ faults' = cancel(Session).faults
            /\ cancelLog' = [calls |-> cancelLog.calls + 1, ran |-> TRUE,
                             produced |-> Len(produced), faults |-> faults,
                             messages |-> wsEvents.messages,
                             buffered |-> Len(stream.queue)]
       ELSE /\ cancelLog' = [cancelLog EXCEPT !.calls = @ + 1]
            /\ UNCHANGED <<stream, readableStreamCancel, readyState, faults>>
    /\ UNCHANGED <<pcVars, outVars, earlyDataHeader, produced, wsEvents>>

\* The outbound side closes the inbound connection (the catch of
\* remoteSocketToWS, the retry's closed.finally).
OutboundSafeClose ==
    /\ stream.state # "none"
    /\ readyState = WS_READY_STATE_OPEN
    /\ readyState' = safeCloseWebSocket(readyState)
    /\ UNCHANGED <<pcVars, outVars, inVars>>

InboundNext ==
    \/ MakeReadableWebSocketStream
    \/ OnMessage
    \/ OnClose
    \/ OnError
    \/ StreamRead
    \/ StreamCancel
    \/ OutboundSafeClose

InboundSpec == InboundInit /\ [][InboundNext]_vars


\* ============================================== the fallback address
\* handleRequest's validation of the proxyip parameter and
\* handleProxyConfig, on strings spelled out character by character.

Digits == {"0", "1", "2", "3", "4", "5", "6", "7", "8", "9"}
Letters ==
    {"a", "b", "c", "d", "e", "f", "g", "h", "i", "j", "k", "l", "m", "n",
     "o", "p", "q", "r", "s", "t", "u", "v", "w", "x", "y", "z", "A", "B",
     "C", "D", "E", "F", "G", "H", "I", "J", "K", "L", "M", "N", "O", "P",
     "Q", "R", "S", "T", "U", "V", "W", "X", "Y", "Z"}
HexDigits == Digits \cup {"a", "b", "c", "d", "e", "f", "A", "B", "C", "D", "E", "F"}
Alnum == Letters \cup Digits

\* the default port, '443'
DefaultPort == <<"4", "4", "3">>

\* proxyIPs
proxyIPs ==
    << <<"c", "d", "n", ".", "x", "n", "-", "-", "b", "6", "g", "a", "c", ".", "e", "u", ".", "o", "r", "g", ":", "4", "4", "3">>,
       <<"c", "d", "n", "-", "a", "l", "l", ".", "x", "n", "-", "-", "b", "6", "g", "a", "c", ".", "e", "u", ".", "o", "r", "g", ":", "4", "4", "3">> >>

\* The proxyip parameters a request can carry: none, a host name, an IPv4
\* and a bracketed IPv6 entry, two lists (one with a space after the
\* comma), and one the validation rejects.
UrlProxyInputs ==
    { <<>>,
      <<"a", ".", "i", "o", ":", "8", "0">>,
      <<"1", ".", "2", ".", "3", ".", "4", ":", "4", "4", "3">>,
      <<"[", ":", ":", "1", "]", ":", "4", "4", "3">>,
      <<"[", "2", "0", "0", "1", ":", "d", "b", "8", ":", ":", "1", "]", ":", "8", "4", "4", "3">>,
      <<"a", ".", "i", "o", ":", "8", "0", ",", "[", ":", ":", "1", "]", ":", "4", "4", "3">>,
      <<"a", ".", "i", "o", ":", "8", "0", ",", " ", "1", ".", "2", ".", "3", ".", "4", ":", "4", "4", "3">>,
      <<"a", ".", "i", "o">> }

\* The PROXYIP settings of the environment: none, an entry without a
\* port, a list.
EnvProxyInputs ==
    { <<>>,
      <<"e", ".", "i", "o">>,
      <<"e", ".", "i", "o", ":", "8", "4", "4", "3", ",", "1", ".", "2", ".", "3", ".", "4", ":", "4", "4", "3">> }

\* String.prototype.includes for one character
Includes(str, ch) == \E k \in 1..Len(str) : str[k] = ch

\* String.prototype.split for a one-character separator
RECURSIVE Split(_, _)
Split(str, sep) ==
    IF ~Includes(str, sep) THEN <<str>>
    ELSE LET k == CHOOSE j \in 1..Len(str) :
                     str[j] = sep /\ \A h \in 1..(j - 1) : str[h] # sep
         IN  <<SubSeq(str, 1, k - 1)>> \o Split(SubSeq(str, k + 1, Len(str)), sep)

\* String.prototype.trim, for blanks
RECURSIVE Trim(_)
Trim(str) ==
    IF str # <<>> /\ Head(str) = " " THEN Trim(Tail(str))
    ELSE IF str # <<>> /\ str[Len(str)] = " " THEN Trim(SubSeq(str, 1, Len(str) - 1))
    ELSE str

\* PROXYIP.split(',').map(addr => addr.trim())
SplitAddresses(list) ==
    LET parts == Split(list, ",")
    IN  [k \in 1..Len(parts) |-> Trim(parts[k])]

AllIn(str, chars) == \A k \in 1..Len(str) : str[k] \in chars

\* [a-zA-Z0-9][-a-zA-Z0-9.]*(\.[a-zA-Z0-9][-a-zA-Z0-9.]*)+
IsHostName(str) ==
    /\ str # <<>>
    /\ str[1] \in Alnum
    /\ AllIn(str, Alnum \cup {"-", "."})
    /\ \E k \in 2..(Len(str) - 1) : str[k] = "." /\ str[k + 1] \in Alnum

\* \d{1,3}\.\d{1,3}\.\d{1,3}\.\d{1,3}
IsIPv4(str) ==
    LET parts == Split(str, ".")
    IN  /\ Len(parts) = 4
        /\ \A k \in 1..4 : Len(parts[k]) \in 1..3 /\ AllIn(parts[k], Digits)

\* \[[0-9a-fA-F:]+\]
IsBracketedIPv6(str) ==
    /\ Len(str) >= 3
    /\ str[1] = "["
    /\ str[Len(str)] = "]"
    /\ AllIn(SubSeq(str, 2, Len(str) - 1), HexDigits \cup {":"})

\* proxyPattern.test(addr): one of the three forms, ':' and 1 to 5 digits.
\* The digits hold no ':', so the port starts after the last ':'.
ProxyPatternTest(addr) ==
    \E k \in 1..Len(addr) :
        /\ addr[k] = ":"
        /\ Len(addr) - k \in 1..5
        /\ AllIn(SubSeq(addr, k + 1, Len(addr)), Digits)
        /\ LET host == SubSeq(addr, 1, k - 1)
           IN  IsHostName(host) \/ IsIPv4(host) \/ IsBracketedIPv6(host)

\* handleRequest: an invalid proxyip parameter is replaced by null.
ValidatedProxyIP(param) ==
    IF param # <<>>
       /\ ~(\A k \in 1..Len(SplitAddresses(param)) : ProxyPatternTest(SplitAddresses(param)[k]))
    THEN <<>>
    ELSE param

\* urlPROXYIP || PROXYIP
EffectiveProxyIP(param, env) ==
    IF ValidatedProxyIP(param) # <<>> THEN ValidatedProxyIP(param) ELSE env

\* The addresses handleProxyConfig chooses from.
ProxyPool(PROXYIP) == IF PROXYIP # <<>> THEN SplitAddresses(PROXYIP) ELSE proxyIPs

\* handleProxyConfig(PROXYIP), with idx the entry the random index selects.
handleProxyConfig(PROXYIP, idx) ==
    IF PROXYIP # <<>>
    THEN LET selectedProxy == SplitAddresses(PROXYIP)[idx]
             parts == Split(selectedProxy, ":")
         IN  [ip |-> parts[1],
              port |-> IF Len(parts) >= 2 THEN parts[2] ELSE DefaultPort]
    ELSE LET defaultProxy == proxyIPs[idx]
         IN  [ip |-> Split(defaultProxy, ":")[1],
              port |-> IF Includes(defaultProxy, ":")
                       THEN Split(defaultProxy, ":")[2] ELSE DefaultPort]

ProxyConfigTypeOK ==
    /\ urlPROXYIP \in UrlProxyInputs
    /\ envPROXYIP \in EnvProxyInputs
    /\ proxyPhase \in {"request", "configured", "firstAttempt", "retried"}
    /\ DOMAIN requestProxy = {"ip", "port"}
    /\ DOMAIN retryRead = {"ip", "port"}

ProxyConfigInit ==
    /\ OutboundIdle
    /\ readyState = WS_READY_STATE_OPEN
    /\ earlyDataHeader = ""
    /\ stream = NoStream
    /\ readableStreamCancel = FALSE
    /\ produced = <<>>
    /\ faults = 0
    /\ wsEvents = NoEvents
    /\ cancelLog = NoCancel
    /\ urlPROXYIP \in UrlProxyInputs
    /\ envPROXYIP \in EnvProxyInputs
    /\ proxyPhase = "request"
    /\ requestProxy = NoProxyConfig
    /\ retryRead = NoProxyConfig

\* handleRequest: validate the parameter, choose the fallback address and
\* store it in the request's configuration.
HandleRequest ==
    /\ proxyPhase = "request"
    /\ LET effective == EffectiveProxyIP(urlPROXYIP, envPROXYIP)
       IN  \E idx \in 1..Len(ProxyPool(effective)) :
              requestProxy' = handleProxyConfig(effective, idx)
    /\ proxyPhase' = "configured"
    /\ UNCHANGED <<outVars, inVars, readyState, urlPROXYIP, envPROXYIP, retryRead>>

\* The first attempt: connectAndWrite(addressRemote, portRemote) reads no
\* fallback address.
FirstAttempt ==
    /\ proxyPhase = "configured"
    /\ proxyPhase' = "firstAttempt"
    /\ UNCHANGED <<outVars, inVars, readyState, urlPROXYIP, envPROXYIP, requestProxy,
                   retryRead>>

\* retry reads config.proxyIP and config.proxyPort.
RetryReadsFallback ==
    /\ proxyPhase = "firstAttempt"
    /\ proxyPhase' = "retried"
    /\ retryRead' = requestProxy
    /\ UNCHANGED <<outVars, inVars, readyState, urlPROXYIP, envPROXYIP, requestProxy>>

ProxyConfigNext ==
    \/ HandleRequest
    \/ FirstAttempt
    \/ RetryReadsFallback

ProxyConfigSpec == ProxyConfigInit /\ [][ProxyConfigNext]_vars


\* ================================================================ claims

SentFrom(i) == { k \in 1..Len(wsSent) : wsSent[k].sock = i }

\* The first socket's readable side has ended (EOF or error) under the first
\* copy loop and no chunk of it was delivered to the inbound connection.
FirstEndedNoData ==
    /\ copies[1].pipe \in {"closed", "errored"}
    /\ sockets[1].readable \in {"eof", "err"}
    /\ ~copies[1].hasIncomingData

\* The retry's copy loop has ended, by EOF, by a socket error or by a
\* failed write to the inbound connection.
RetryCopyEnded == copies[2].pipe \in {"closed", "errored"}

\* C1: when the first outbound connection's readable side ends without any
\* chunk delivered, exactly one retry attempt is made and the inbound
\* connection is closed once the retry is over, whether the retry delivered
\* data, delivered none, or failed; stated on the session that is over.
C1_RetryOnceThenInboundClosed ==
    (FirstEndedNoData /\ SessionOver) =>
        /\ attempts = 2
        /\ readyState # WS_READY_STATE_OPEN

\* What the code does guarantee of C1: the retry attempt is made, only one,
\* and a retry that got as far as its copy loop closes the inbound
\* connection after that loop has ended.
RetryCopyEndClosesInbound ==
    /\ [](FirstEndedNoData => attempts <= 2)
    /\ (FirstEndedNoData ~> attempts = 2)
    /\ (RetryCopyEnded ~> readyState # WS_READY_STATE_OPEN)

\* C2: a session makes at most two outbound connection attempts, the first
\* and at most one retry; the end of the retry's copy opens no third one.
C2_AtMostTwoAttempts ==
    /\ attempts <= 2
    /\ \A i \in SocketIds : i > 2 => ~sockets[i].made /\ copies[i] = NoCopy

\* The retry's copy loop ended without data and remoteSocketToWS finished.
C2_Witness ==
    /\ attempts = 2
    /\ copies[2].after = "done"
    /\ ~copies[2].hasIncomingData

\* C3: a retry is made only when the first copy loop has completed with
\* hasIncomingData still false; once a chunk of the first socket has been
\* written to the inbound connection, no retry connection is ever opened.
C3_RetryOnlyWithoutData ==
    /\ attempts >= 2 => /\ copies[1].pipe \in {"closed", "errored"}
                        /\ ~copies[1].hasIncomingData
    /\ SentFrom(1) # {} => attempts = 1 /\ ~sockets[2].made

\* The first copy delivered a chunk, ended, and remoteSocketToWS finished
\* without a retry.
C3_Witness ==
    /\ SentFrom(1) # {}
    /\ copies[1].after = "done"
    /\ copies[1].pipe = "closed"
    /\ attempts = 1

\* The first connectAndWrite threw in the proxy handshake: no socket was
\* returned to it.
FirstHandshakeFailed == hpc = "threw" /\ ~sockets[1].made

\* C4 as stated: when the first attempt fails in the proxy handshake, one
\* retry attempt is made, so a session that is over after such a failure
\* has made two attempts.
C4_FirstFailureFeedsRetry ==
    (FirstHandshakeFailed /\ SessionOver) => attempts = 2

\* C4 as amended: a throw of the first connectAndWrite is terminal for the
\* outbound side: handleTCPOutBound rejects, no retry attempt is made and
\* no copy loop is started.
C4_FirstFailureIsTerminal ==
    hpc = "threw" =>
        /\ attempts = 1
        /\ caw.stage = "idle"
        /\ \A i \in SocketIds : copies[i] = NoCopy /\ sockets[i].closedWatch = "none"

\* The first attempt went through the proxy and its handshake failed.
C4_Witness ==
    /\ FirstHandshakeFailed
    /\ config.socks5Relay
    /\ SessionOver

\* C5: when connectAndWrite throws inside retry, the inbound connection is
\* closed and no further connection attempt is made; stated on the session
\* that is over after such a throw.
C5_RetryFailureClosesInbound ==
    ((\E i \in SocketIds : copies[i].after = "rejected") /\ SessionOver) =>
        /\ readyState # WS_READY_STATE_OPEN
        /\ attempts = 2

\* The target and the route of the retry by the code's precedence.
RetryHostExpected ==
    IF RetryViaProxy(config) THEN config.addressRemote
    ELSE IF config.proxyIP # "" THEN config.proxyIP ELSE config.addressRemote

RetryPortExpected ==
    IF RetryViaProxy(config) THEN config.portRemote
    ELSE IF config.proxyPort # 0 THEN config.proxyPort ELSE config.portRemote

RetryViaExpected ==
    IF config.variant = "proxy"
    THEN (IF config.proxyType = "null" \/ ~config.parsedProxyAddress THEN "direct"
          ELSE IF config.proxyType = "http" THEN "http" ELSE "socks5")
    ELSE (IF config.enableSocks \/ config.socks5Relay THEN "socks5" ELSE "direct")

\* C6 as stated: with a proxy chain the retry goes through it to the
\* original address and port; else directly to fallbackIP:fallbackPort if
\* configured; else directly to the original address and port; never to a
\* mix of the two.
C6_RetryTargetNeverMixed ==
    caw.caller = "retry" =>
        IF RetryViaProxy(config)
        THEN /\ caw.via \in {"socks5", "http"}
             /\ caw.address = config.addressRemote /\ caw.port = config.portRemote
        ELSE /\ caw.via = "direct"
             /\ \/ caw.address = config.proxyIP /\ caw.port = config.proxyPort
                \/ caw.address = config.addressRemote /\ caw.port = config.portRemote

\* C6 as amended: with a proxy chain the retry goes through it to the
\* original address and port; otherwise its host is config.proxyIP when set,
\* else the original address, and independently its port is
\* config.proxyPort when set, else the original port; that connection is
\* direct, except that the SOCKS5-only version routes it through SOCKS5 in
\* global relay mode.
C6_RetryTargetPerField ==
    /\ caw.caller = "retry" =>
          /\ caw.address = RetryHostExpected
          /\ caw.port = RetryPortExpected
          /\ caw.via = RetryViaExpected
    /\ sockets[2].made =>
          /\ sockets[2].hostname = RetryHostExpected
          /\ sockets[2].port = RetryPortExpected
          /\ sockets[2].via = RetryViaExpected

\* The retry connected to the fallback host on the original port.
C6_Witness ==
    /\ sockets[2].made
    /\ sockets[2].via = "direct"
    /\ sockets[2].hostname = config.proxyIP
    /\ sockets[2].hostname # config.addressRemote
    /\ sockets[2].port = config.portRemote
    /\ sockets[2].port # config.proxyPort

\* C7: at every instant at most one outbound socket of the session is live
\* (open in either direction).
C7_AtMostOneLiveSocket ==
    Cardinality({ i \in SocketIds : Live(sockets[i]) }) <= 1

\* C8: once the retry has recorded its socket, no chunk of the first socket
\* is written to the inbound connection: every send is of a chunk of the
\* socket recorded at that moment, and the first copy loop is over when the
\* replacement is recorded.
C8_NoOldChunkAfterReplacement ==
    /\ \A k \in 1..Len(wsSent) : wsSent[k].sock = wsSent[k].current
    /\ remoteSocket >= 2 => copies[1].pipe # "piping"

\* A chunk of the retry's socket was delivered.
C8_Witness ==
    /\ SentFrom(2) # {}
    /\ remoteSocket = 2

\* C9: the protocol response header is sent once: with the first chunk
\* delivered to the inbound connection, in the same send, and with no later
\* chunk of the same or of the retry's copy loop.
C9_HeaderExactlyOnceFirst ==
    wsSent # <<>> =>
        /\ wsSent[1].header
        /\ \A k \in 2..Len(wsSent) : ~wsSent[k].header

\* Two chunks were delivered by the retry's copy loop.
C9_Witness ==
    /\ Len(wsSent) >= 2
    /\ wsSent[1].sock = 2
    /\ wsSent[2].sock = 2

\* C10: send is only called while the inbound connection is OPEN; a chunk
\* that arrives in another state fails the copy, is not sent, and no later
\* chunk of that copy is sent.
C10_SendOnlyWhenOpen ==
    /\ \A k \in 1..Len(wsSent) : wsSent[k].readyState = WS_READY_STATE_OPEN
    /\ \A i \in SocketIds : copies[i].errChunk > 0 =>
          /\ copies[i].pipe = "errored"
          /\ \A k \in SentFrom(i) : wsSent[k].n < copies[i].errChunk

\* A copy sent its first chunk and failed on the second, which found the
\* inbound connection no longer OPEN.
C10_Witness ==
    \E i \in SocketIds :
        /\ copies[i].errChunk = 2
        /\ SentFrom(i) # {}
        /\ readyState # WS_READY_STATE_OPEN


\* C11: an error raised while copying from the outbound socket to the
\* inbound connection (write() throwing on a chunk) is not followed by a
\* new outbound connection, and once remoteSocketToWS has finished both the
\* inbound connection and that outbound socket are closed.
C11_CopyErrorClosesBothNoRetry ==
    \A i \in SocketIds : copies[i].errChunk > 0 =>
        /\ attempts <= i
        /\ copies[i].after = "done" =>
              readyState # WS_READY_STATE_OPEN /\ ~Live(sockets[i])

\* Whether the configuration holds a proxy chain the version can use.
ProxyChainConfigured ==
    IF config.variant = "proxy" THEN ProxyConfigured(config) ELSE config.enableSocks

\* The route the first attempt is claimed to take.
FirstViaExpected ==
    IF config.socks5Relay /\ ProxyChainConfigured
    THEN (IF config.proxyType = "http" THEN "http" ELSE "socks5")
    ELSE "direct"

\* C12: the first attempt targets the request's address and port; it goes
\* through the proxy chain exactly when relay mode is global and a chain is
\* configured, and is a direct connect otherwise.
C12_FirstAttemptRoute ==
    /\ caw.caller = "first" =>
          /\ caw.address = config.addressRemote
          /\ caw.port = config.portRemote
          /\ caw.via = FirstViaExpected
    /\ sockets[1].made =>
          /\ sockets[1].hostname = config.addressRemote
          /\ sockets[1].port = config.portRemote
          /\ sockets[1].via = FirstViaExpected

\* C13: on every socket connectAndWrite returns, rawClientData has been
\* written exactly once, before the copy loop starts on it: by
\* connectAndWrite on the direct and SOCKS5 paths, by httpConnect on the HTTP
\* path; it is never written a second time.
C13_PayloadWrittenOnce ==
    \A i \in SocketIds :
        /\ sockets[i].payloadWrites <= 1
        /\ copies[i].pipe # "none" => sockets[i].payloadWrites = 1
        /\ (sockets[i].made /\ sockets[i].via = "http") => sockets[i].payloadWrites = 1

\* The retry went through the HTTP proxy and its copy loop has started.
C13_Witness ==
    /\ sockets[2].made
    /\ sockets[2].via = "http"
    /\ copies[2].pipe # "none"
    /\ sockets[2].payloadWrites = 1

\* C14: within one copy loop the chunks sent are the chunks read, in the
\* order read: the k-th send of a socket's copy carries that socket's k-th
\* chunk, and no send carries a chunk that was not read.
C14_SentIsPrefixOfRead ==
    \A i \in SocketIds :
        \A k \in SentFrom(i) :
            /\ wsSent[k].n = Cardinality({ j \in SentFrom(i) : j <= k })
            /\ wsSent[k].n <= sockets[i].nread

\* A copy loop has sent two chunks and its socket has ended.
C14_Witness ==
    \E i \in SocketIds :
        /\ Cardinality(SentFrom(i)) >= 2
        /\ copies[i].pipe = "closed"

\* The inbound connection is gone: it is CLOSED.
InboundGone == readyState = WS_READY_STATE_CLOSED

\* C19 (outbound part): no outbound socket stays open after the inbound
\* connection is gone, also when it closed while a retry was in progress.
\* Stated on the sockets opened after the inbound connection had closed (no
\* close or error handler of the inbound side can have seen them) and on
\* the session that waits for nothing but its peers, where no step of the
\* program is left that could still close them.
C19_InboundGoneClosesOutbound ==
    (InboundGone /\ Quiescent) =>
        \A i \in SocketIds :
            (sockets[i].made /\ sockets[i].inboundAtOpen = WS_READY_STATE_CLOSED)
                => ~Live(sockets[i])

\* C20: when the outbound connection has closed and no retry is triggered
\* (the first copy delivered a chunk and the upstream then closed
\* normally), the inbound connection is closed; stated on the session that
\* is over.
C20_OutboundCloseClosesInbound ==
    ( /\ copies[1].hasIncomingData
      /\ copies[1].pipe = "closed"
      /\ copies[1].after = "done"
      /\ SessionOver ) => readyState # WS_READY_STATE_OPEN


\* ---------------------------------------------------- inbound stream

\* What the session's early-data header decodes to.
Decoded == base64ToArrayBuffer(earlyDataHeader)
EarlyDataPresent == ~Decoded.error /\ Decoded.earlyData # ""

\* C15: a present, decodable early-data header yields the first chunk of
\* the stream, once: while nothing has been read it is at the head of the
\* queue of the readable stream, the first chunk read is the early data,
\* and no later chunk, read or queued, is the early data again.
C15_EarlyDataFirstOnce ==
    (EarlyDataPresent /\ stream.state # "none") =>
        /\ (produced = <<>> /\ stream.state = "readable") =>
              /\ stream.queue # <<>>
              /\ Head(stream.queue) = Decoded.earlyData
              /\ \A k \in 2..Len(stream.queue) : stream.queue[k] \in Payloads
        /\ produced # <<>> =>
              /\ produced[1] = Decoded.earlyData
              /\ \A k \in 2..Len(produced) : produced[k] \in Payloads
              /\ \A k \in 1..Len(stream.queue) : stream.queue[k] \in Payloads

\* The early data and then a message have been read.
C15_Witness ==
    /\ EarlyDataPresent
    /\ Len(produced) >= 2
    /\ produced[1] = "hello"
    /\ produced[2] \in Payloads

\* C16: when the early-data header fails to decode, the stream is errored
\* at once, produces no chunk, and a message event that arrives afterwards
\* (before any close event) causes no fault.
C16_DecodeErrorIsQuiet ==
    (Decoded.error /\ stream.state # "none") =>
        /\ stream.state = "errored"
        /\ produced = <<>>
        /\ ~wsEvents.close => faults = 0

\* C17: once the cancel callback has run, the inbound connection is not
\* OPEN any more, the stream is closed with nothing queued, and neither a
\* chunk nor a fault has been added since: the message events fired after
\* the cancel were discarded and the chunks buffered at the cancel dropped.
C17_NothingAfterCancel ==
    cancelLog.ran =>
        /\ readyState # WS_READY_STATE_OPEN
        /\ stream.state = "closed"
        /\ stream.queue = <<>>
        /\ Len(produced) = cancelLog.produced
        /\ faults = cancelLog.faults

\* A chunk was buffered when the stream was cancelled and a message event
\* fired afterwards.
C17_Witness ==
    /\ cancelLog.ran
    /\ cancelLog.buffered > 0
    /\ wsEvents.messages > cancelLog.messages

\* A cancel() call after the first one.
SecondCancel == cancelLog.calls >= 1 /\ cancelLog'.calls = cancelLog.calls + 1

\* C18: cancelling is idempotent.  From every reachable state the cancel
\* callback applied twice gives the flag, the readyState and the faults it
\* gives applied once, and every cancel() call after the first leaves the
\* flag, the readyState, the stream, the chunks delivered and the faults as
\* they are.
C18_CancelIdempotent ==
    /\ [](cancel(cancel(Session)) = cancel(Session))
    /\ [][SecondCancel =>
            <<readableStreamCancel, readyState, stream, produced, faults>>'
              = <<readableStreamCancel, readyState, stream, produced, faults>>]_vars

\* The stream was cancelled twice, the first time while readable.
C18_Witness == cancelLog.ran /\ cancelLog.calls = 2


\* ------------------------------------------------------- backpressure

\* webSocket.bufferedAmount, in chunks: sent and not yet on the wire.
BufferedAmount == Len(wsSent) - wsTransmitted
Saturated == BufferedAmount >= SendBufferHighWater

\* C21: while the inbound transport's send buffer is saturated, no further
\* chunk is read from an outbound socket.
C21_NoReadWhileSaturated ==
    [][Saturated => \A i \in SocketIds : sockets'[i].nread = sockets[i].nread]_vars


\* ------------------------------------------ events after termination

\* The chunk sequence has terminated: closed (end-of-sequence or cancel)
\* or errored.
Terminated == stream.state \in {"closed", "errored"}

\* C22: once the chunk sequence has terminated, no later message, close or
\* error event acts on it: no listener calls enqueue or close on the
\* terminated stream (a call the stream rejects by throwing).  Stated for
\* the sessions whose early-data header decodes, where only an inbound
\* event or a cancel can have terminated the sequence.
C22_NoEventActsOnTerminated ==
    [][(~Decoded.error /\ Terminated) => faults' = faults]_vars

\* C23: no connectAndWrite call is made after the first one while the
\* inbound connection is not OPEN: when the first attempt's copy ends
\* without data and the inbound connection is CLOSING or CLOSED, retry opens
\* no connection.
C23_NoRetryWithoutInbound ==
    [][(attempts >= 1 /\ readyState # WS_READY_STATE_OPEN) => attempts' = attempts]_vars


\* ------------------------------------------------- fallback address

\* The host and the port an entry of a pool names: the port follows the
\* entry's last ':', and is 443 for an entry without one.
LastColon(entry) == CHOOSE k \in 1..Len(entry) :
                        entry[k] = ":" /\ \A h \in (k + 1)..Len(entry) : entry[h] # ":"
HostOf(entry) ==
    IF Includes(entry, ":") THEN SubSeq(entry, 1, LastColon(entry) - 1) ELSE entry
PortOf(entry) ==
    IF Includes(entry, ":") THEN SubSeq(entry, LastColon(entry) + 1, Len(entry))
    ELSE DefaultPort

\* The pool the request's fallback address is chosen from.
RequestPool == ProxyPool(EffectiveProxyIP(urlPROXYIP, envPROXYIP))

\* C24: the fallback address handleRequest stores is the host and the port
\* of exactly one entry of the pool in use (the accepted proxyip list, the
\* environment's list, or the default pool), with port 443 for an entry
\* without a port, and retry reads the address that was chosen then.
C24_FallbackIsOneEntry ==
    /\ proxyPhase # "request" =>
          \E k \in 1..Len(RequestPool) :
              /\ requestProxy.ip = HostOf(RequestPool[k])
              /\ requestProxy.port = PortOf(RequestPool[k])
    /\ proxyPhase = "retried" => retryRead = requestProxy

====
